---- MODULE Spec2Model ----
(***************************************************************************)
(* Model of the chat page component (ChatPage): the component's state      *)
(* hooks, its event handlers, the asynchronous sendMessage function with   *)
(* its two suspension points (fetch, response.json), the token kept in     *)
(* localStorage and the router location.                                   *)
(*                                                                         *)
(* Texts are sequences of one-character strings so that String.trim() can  *)
(* be computed.  An optional value (null / undefined) is <<>> and a        *)
(* present value x is <<x>>.  A time is the millisecond clock reading      *)
(* Date.now(); an id is the decimal rendering of such a number and a       *)
(* timestamp its ISO rendering, both injective, so both are kept as the    *)
(* number they render.                                                     *)
(***************************************************************************)
EXTENDS Integers, Sequences, FiniteSets, TLC

\* ---------------------------------------------------------------- bounds
MaxSends == 2
MaxClock == 1

\* ------------------------------------------------------- optional values
None == <<>>
Some(x) == <<x>>

\* ------------------------------------------------------------ text model
Whitespace == {" "}

RECURSIVE TrimStart(_)
TrimStart(s) ==
  IF s # <<>> /\ Head(s) \in Whitespace THEN TrimStart(Tail(s)) ELSE s

RECURSIVE TrimEnd(_)
TrimEnd(s) ==
  IF s # <<>> /\ s[Len(s)] \in Whitespace
  THEN TrimEnd(SubSeq(s, 1, Len(s) - 1)) ELSE s

Trim(s) == TrimEnd(TrimStart(s))

\* JavaScript truthiness of a string
TruthyText(s) == s # <<>>

\* truthiness of localStorage.getItem("token"): null and "" are falsy
TruthyToken(tok) == tok # None /\ tok[1] # ""

Placeholder == <<"Sorry, I could not process your request.">>

\* ------------------------------------------------------- input domains
KeyText == <<"k">>
QuestionText == <<"q">>
BlankText == <<" ">>

\* values the user can type into the input
InputTexts == { BlankText, KeyText, QuestionText }

\* texts handed to sendMessage by a caller other than the two handlers
DirectTexts == { <<>>, KeyText }

\* values of localStorage "token"
Tokens == { None, Some(""), Some("jwt") }

\* Related maps the server can return (intent key -> question)
RelatedMaps ==
  { [k \in {KeyText, BlankText} |-> QuestionText] }

NullBody == [kind |-> "null", message |-> None, reply |-> None, related |-> None]

ObjectBodies ==
  [kind : {"object"},
   message : {None, Some(<<>>), Some(<<"A">>)},
   reply : {None, Some(<<"B">>)},
   related : {None} \cup {Some(m) : m \in RelatedMaps}]

\* results of response.json(): any JSON object of the wire protocol, or null
Bodies == ObjectBodies \cup {NullBody}

\* ------------------------------------------------------------ the state
VARIABLES
  token,        \* localStorage "token"
  location,     \* router location
  pc,           \* "render" before the mount effect has run, then "mounted"
  inputMessage, \* useState("")
  messages,     \* useState<Message[]>([])
  isLoading,    \* useState(false)
  error,        \* useState("")
  related,      \* useState<Related | null>(null)
  requests,     \* sendMessage invocations suspended at an await
  nSent,        \* number of fetch calls issued so far
  now,          \* Date.now()
  last          \* history: the handler that ran last, its argument, the state before

vars == <<token, location, pc, inputMessage, messages, isLoading, error,
          related, requests, nSent, now, last>>

State ==
  [inputMessage |-> inputMessage, messages |-> messages,
   isLoading |-> isLoading, error |-> error, related |-> related]

Apply(s) ==
  /\ inputMessage' = s.inputMessage
  /\ messages' = s.messages
  /\ isLoading' = s.isLoading
  /\ error' = s.error
  /\ related' = s.related

\* history of the last step: the handler or continuation that ran, the
\* control it was reached from, its argument, and whether an error and
\* suggestions were showing when a sendMessage call started
Record(op, via, arg) ==
  last' = [op |-> op, via |-> via, arg |-> arg,
           hadError |-> (op = "sendMessage" /\ error # ""),
           hadRelated |-> (op = "sendMessage" /\ related # None)]

\* Date.now() read by a step: any reading not before the previous one
Clock(t) == now' = t

Init ==
  /\ token \in Tokens
  /\ location = "/chat"
  /\ pc = "render"
  /\ inputMessage = <<>>
  /\ messages = <<>>
  /\ isLoading = FALSE
  /\ error = ""
  /\ related = None
  /\ requests = {}
  /\ nSent = 0
  /\ now = 0
  /\ last = [op |-> "init", via |-> "-", arg |-> None,
             hadError |-> FALSE, hadRelated |-> FALSE]

\* ------------------------------------------------ sendMessage, as effects
userMessage(text, t) ==
  [id |-> t, text |-> text, sender |-> "user", timestamp |-> t]

\* variant: data.reply || data.message || placeholder
ReplyText_ReplyFirst(data) ==
  IF data.reply # None /\ TruthyText(data.reply[1]) THEN data.reply[1]
  ELSE IF data.message # None /\ TruthyText(data.message[1]) THEN data.message[1]
  ELSE Placeholder

\* data.message || data.reply || "Sorry, I could not process your request."
ReplyText(data) ==
  IF data.message # None /\ TruthyText(data.message[1]) THEN data.message[1]
  ELSE IF data.reply # None /\ TruthyText(data.reply[1]) THEN data.reply[1]
  ELSE Placeholder

\* data.related || null
RelatedOf(data) ==
  IF data.related # None THEN data.related ELSE None

botMessage(data, t) ==
  [id |-> t + 1, text |-> ReplyText(data), sender |-> "bot", timestamp |-> t]

\* values thrown inside the try block
NetworkError == [isError |-> TRUE, message |-> "Failed to fetch"]
NotOkError == [isError |-> TRUE, message |-> "Failed to send message"]
JsonSyntaxError == [isError |-> TRUE, message |-> "Unexpected end of JSON input"]
NullDerefError ==
  [isError |-> TRUE, message |-> "Cannot read properties of null (reading 'message')"]

FetchRejections == {NetworkError}
JsonRejections == {JsonSyntaxError, NetworkError}

\* err instanceof Error ? err.message : "Failed to send message"
CatchText(err) ==
  IF err.isError THEN err.message ELSE "Failed to send message"

\* variant: the user message is appended before the token is looked at
sendMessageStart_NoGuard(s, tok, text, t) ==
  [s EXCEPT !.messages = Append(@, userMessage(text, t)),
            !.isLoading = TruthyToken(tok) \/ @,
            !.inputMessage = <<>>,
            !.error = "",
            !.related = None]

\* variant: setIsLoading(true) is missing
sendMessageStart_NoLoading(s, tok, text, t) ==
  IF ~TruthyToken(tok) THEN s
  ELSE [s EXCEPT !.messages = Append(@, userMessage(text, t)),
                 !.inputMessage = <<>>,
                 !.error = "",
                 !.related = None]

\* variant: setError("") is missing
sendMessageStart_NoReset(s, tok, text, t) ==
  IF ~TruthyToken(tok) THEN s
  ELSE [s EXCEPT !.messages = Append(@, userMessage(text, t)),
                 !.isLoading = TRUE,
                 !.inputMessage = <<>>,
                 !.related = None]

\* variant: setRelated(null) is missing
sendMessageStart_KeepRelated(s, tok, text, t) ==
  IF ~TruthyToken(tok) THEN s
  ELSE [s EXCEPT !.messages = Append(@, userMessage(text, t)),
                 !.isLoading = TRUE,
                 !.inputMessage = <<>>,
                 !.error = ""]

\* the token guard and the synchronous part of sendMessage up to the fetch
sendMessageStart(s, tok, text, t) ==
  IF ~TruthyToken(tok) THEN s
  ELSE [s EXCEPT !.messages = Append(@, userMessage(text, t)),
                 !.isLoading = TRUE,
                 !.inputMessage = <<>>,
                 !.error = "",
                 !.related = None]

\* variant: setIsLoading(false) sits in the try block, not in a finally
sendMessageCatch_NoFinally(s, err) ==
  [s EXCEPT !.error = CatchText(err)]

\* variant: the failure is reported as a bot message
sendMessageCatch_BotError(s, err) ==
  [s EXCEPT !.messages = Append(@, [id |-> 0, text |-> <<CatchText(err)>>,
                                     sender |-> "bot", timestamp |-> 0]),
            !.error = CatchText(err),
            !.isLoading = FALSE]

\* catch block followed by the finally block
sendMessageCatch(s, err) ==
  [s EXCEPT !.error = CatchText(err), !.isLoading = FALSE]

\* variant: the bot message replaces the list, setMessages([botMessage])
sendMessageJson_Replace(s, data, t) ==
  IF data.kind = "null" THEN sendMessageCatch(s, NullDerefError)
  ELSE [s EXCEPT !.messages = <<botMessage(data, t)>>,
                 !.related = RelatedOf(data),
                 !.isLoading = FALSE]

\* variant: a response that finds the conversation cleared is dropped
sendMessageJson_DropAfterClear(s, data, t) ==
  IF data.kind = "null" THEN sendMessageCatch(s, NullDerefError)
  ELSE IF s.messages = <<>> THEN [s EXCEPT !.isLoading = FALSE]
  ELSE [s EXCEPT !.messages = Append(@, botMessage(data, t)),
                 !.related = RelatedOf(data),
                 !.isLoading = FALSE]

\* continuation after response.json() resolved with data, then finally;
\* reading a property of null throws a TypeError inside the try block
sendMessageJson(s, data, t) ==
  IF data.kind = "null" THEN sendMessageCatch(s, NullDerefError)
  ELSE [s EXCEPT !.messages = Append(@, botMessage(data, t)),
                 !.related = RelatedOf(data),
                 !.isLoading = FALSE]

\* the fetch call issued by sendMessage
NewRequest(tok, text) ==
  [id |-> nSent + 1,
   body |-> [message |-> text],
   authorization |-> <<"Bearer", tok[1]>>,
   stage |-> "fetch"]

\* sendMessage(messageText) up to its first await
sendMessage(text, t) ==
  /\ Apply(sendMessageStart(State, token, text, t))
  /\ IF TruthyToken(token)
     THEN /\ requests' = requests \cup {NewRequest(token, text)}
          /\ nSent' = nSent + 1
          /\ location' = location
     ELSE /\ requests' = requests
          /\ nSent' = nSent
          /\ location' = "/login"

\* ------------------------------------------------------------- handlers
\* variant: setRelated(null) is missing
handleClear_KeepRelated(s) ==
  [s EXCEPT !.messages = <<>>, !.error = ""]

handleClear(s) ==
  [s EXCEPT !.messages = <<>>, !.error = "", !.related = None]

\* if (!inputMessage.trim() || isLoading) return;
SubmitReturnsEarly(s) ==
  ~TruthyText(Trim(s.inputMessage)) \/ s.isLoading

\* variant: the button sends the question it shows
RelatedClickText_Question(intent, question) == question

\* the argument handleRelatedClick hands to sendMessage for a rendered entry
RelatedClickText(intent, question) == intent

\* the component is rendered and its mount effect has run
Rendered == pc = "mounted" /\ location = "/chat"

\* disabled={isLoading} on the input
InputDisabled(s) == s.isLoading

\* disabled={isLoading || !inputMessage.trim()} on the submit button
SubmitDisabled(s) == s.isLoading \/ ~TruthyText(Trim(s.inputMessage))

\* the bot message the suggestion buttons are rendered under
HasLastBot(s) == \E i \in 1..Len(s.messages) : s.messages[i].sender = "bot"

\* the indices of the messages for which isLastBot holds: the message is a
\* bot message and is the last element of the list filtered to bot messages
IsLastBotAt(s) ==
  { i \in 1..Len(s.messages) :
      /\ s.messages[i].sender = "bot"
      /\ \A j \in (i + 1)..Len(s.messages) : s.messages[j].sender # "bot" }

\* isLastBot && related, and disabled={isLoading} on each button
SuggestionClickable(s) ==
  HasLastBot(s) /\ s.related # None /\ ~s.isLoading

\* --------------------------------------------------------------- actions
MountEffect ==
  /\ pc = "render"
  /\ pc' = "mounted"
  /\ location' = IF ~TruthyToken(token) THEN "/login" ELSE location
  /\ Record("mount", "-", None)
  /\ UNCHANGED <<now, token, inputMessage, messages, isLoading, error, related,
                 requests, nSent>>

OnChange ==
  /\ Rendered
  /\ ~InputDisabled(State)
  /\ \E v \in InputTexts :
        /\ v # inputMessage
        /\ inputMessage' = v
        /\ Record("onChange", "-", None)
  /\ UNCHANGED <<now, token, location, pc, messages, isLoading, error,
                 related, requests, nSent>>

\* handleSubmit, reached from the form's submit event or the Enter key
handleSubmit(via, t) ==
  IF SubmitReturnsEarly(State)
  THEN /\ Record("handleSubmit", via, None)
       /\ UNCHANGED <<now, inputMessage, messages, isLoading, error, related,
                      requests, nSent, location>>
  ELSE /\ nSent < MaxSends
       /\ Clock(t)
       /\ sendMessage(inputMessage, t)
       /\ Record("sendMessage", via, inputMessage)

SubmitClick ==
  /\ Rendered
  /\ ~SubmitDisabled(State)
  /\ \E t \in now..MaxClock : handleSubmit("form", t)
  /\ UNCHANGED <<token, pc>>

EnterKey ==
  /\ Rendered
  /\ ~InputDisabled(State)
  /\ \E t \in now..MaxClock : handleSubmit("form", t)
  /\ UNCHANGED <<token, pc>>

RelatedClick ==
  /\ Rendered
  /\ SuggestionClickable(State)
  /\ nSent < MaxSends
  /\ \E intent \in DOMAIN related[1] : \E t \in now..MaxClock :
        /\ Clock(t)
        /\ sendMessage(RelatedClickText(intent, related[1][intent]), t)
        /\ Record("sendMessage", "related", <<intent, related[1][intent]>>)
  /\ UNCHANGED <<token, pc>>

ClearClick ==
  /\ Rendered
  /\ Apply(handleClear(State))
  /\ Record("handleClear", "-", None)
  /\ UNCHANGED <<now, token, location, pc, requests, nSent>>

LogoutClick ==
  /\ Rendered
  /\ token' = None
  /\ location' = "/login"
  /\ Record("handleLogout", "-", None)
  /\ UNCHANGED <<now, pc, inputMessage, messages, isLoading, error, related,
                 requests, nSent>>

\* the token is removed from the shared storage by a logout elsewhere
StorageCleared ==
  /\ Rendered
  /\ token # None
  /\ token' = None
  /\ Record("storage", "-", None)
  /\ UNCHANGED <<now, location, pc, inputMessage, messages, isLoading, error,
                 related, requests, nSent>>

\* the fetch promise rejects: catch, finally
FetchRejects ==
  \E r \in requests : \E err \in FetchRejections :
    /\ r.stage = "fetch"
    /\ Apply(sendMessageCatch(State, err))
    /\ requests' = requests \ {r}
    /\ Record("fetchRejected", "-", None)
    /\ UNCHANGED <<now, token, location, pc, nSent>>

\* the fetch promise resolves with a response: !response.ok throws
FetchResolves ==
  \E r \in requests : \E ok \in BOOLEAN :
    /\ r.stage = "fetch"
    /\ IF ok
       THEN /\ requests' = (requests \ {r}) \cup {[r EXCEPT !.stage = "json"]}
            /\ UNCHANGED <<inputMessage, messages, isLoading, error, related>>
       ELSE /\ requests' = requests \ {r}
            /\ Apply(sendMessageCatch(State, NotOkError))
    /\ Record(IF ok THEN "responseOk" ELSE "responseNotOk", "-", None)
    /\ UNCHANGED <<now, token, location, pc, nSent>>

\* response.json() rejects: catch, finally
JsonRejects ==
  \E r \in requests : \E err \in JsonRejections :
    /\ r.stage = "json"
    /\ Apply(sendMessageCatch(State, err))
    /\ requests' = requests \ {r}
    /\ Record("jsonRejected", "-", None)
    /\ UNCHANGED <<now, token, location, pc, nSent>>

\* response.json() resolves with the parsed body
JsonResolves ==
  \E r \in requests : \E data \in Bodies : \E t \in now..MaxClock :
    /\ r.stage = "json"
    /\ Apply(sendMessageJson(State, data, t))
    /\ requests' = requests \ {r}
    /\ Clock(t)
    /\ Record("jsonResolved", "-", data)
    /\ UNCHANGED <<token, location, pc, nSent>>

\* sendMessage called by code that bypasses the controls' disabled state
DirectSend ==
  /\ Rendered
  /\ nSent < MaxSends
  /\ \E text \in DirectTexts : \E t \in now..MaxClock :
        /\ Clock(t)
        /\ sendMessage(text, t)
        /\ Record("sendMessage", "direct", text)
  /\ UNCHANGED <<token, pc>>

Next ==
  \/ MountEffect
  \/ OnChange
  \/ SubmitClick
  \/ EnterKey
  \/ RelatedClick
  \/ ClearClick
  \/ LogoutClick
  \/ StorageCleared
  \/ FetchRejects
  \/ FetchResolves
  \/ JsonRejects
  \/ JsonResolves

Spec == Init /\ [][Next]_vars

\* the controller driven through its operations sendMessage and clear by
\* any caller: every send of the two handlers is a DirectSend
NextDirect ==
  \/ MountEffect
  \/ DirectSend
  \/ ClearClick
  \/ FetchRejects
  \/ FetchResolves
  \/ JsonRejects
  \/ JsonResolves

SpecDirect == Init /\ [][NextDirect]_vars

TypeOK ==
  /\ token \in Tokens
  /\ location \in {"/chat", "/login"}
  /\ isLoading \in BOOLEAN
  /\ nSent \in 0..MaxSends
  /\ now \in 0..MaxClock
  /\ Len(messages) <= 2 * MaxSends

\* ------------------------------------------------------------ properties
SettleOps == {"fetchRejected", "responseNotOk", "jsonRejected", "jsonResolved"}
FailureOps == {"fetchRejected", "responseNotOk", "jsonRejected"}

\* the SessionState of the controller: messages, pending, lastError, related
Session(s) ==
  [messages |-> s.messages, pending |-> s.isLoading,
   lastError |-> s.error, related |-> s.related]

\* C1: with no usable token in storage, the mount effect and sendMessage
\* leave messages, pending, lastError and related as they were, issue no
\* request, and navigate to /login.
C1_AuthGuard ==
  [][(~TruthyToken(token) /\ last'.op \in {"mount", "sendMessage"})
       => /\ Session(State)' = Session(State)
          /\ requests' = requests
          /\ nSent' = nSent
          /\ location' = "/login"]_vars

\* sendMessage was called from a control after the token had been removed
\* from a conversation that already holds messages
C1_Witness ==
  /\ last.op = "sendMessage"
  /\ ~TruthyToken(token)
  /\ location = "/login"
  /\ messages # <<>>

\* C2: without a clear, no step shortens messages or alters an entry that
\* is already there (sends may overlap and settle in any order).
C2_AppendOnly ==
  [][last'.op # "handleClear"
       => /\ Len(messages') >= Len(messages)
          /\ \A i \in 1..Len(messages) : messages'[i] = messages[i]]_vars

\* two sends overlapped (both user messages precede both replies) and both
\* have settled successfully
C2_Witness ==
  /\ Len(messages) = 4
  /\ messages[1].sender = "user"
  /\ messages[2].sender = "user"
  /\ messages[3].sender = "bot"
  /\ messages[4].sender = "bot"
  /\ requests = {}

\* C3: driven by the controls only, a send starts only while pending is
\* false, at most one request is in flight, and pending is true exactly
\* when a request is in flight.
C3_PendingExclusive ==
  [][/\ (last'.op = "sendMessage" /\ nSent' > nSent) => ~isLoading
     /\ Cardinality(requests') <= 1
     /\ isLoading' <=> (requests' # {})]_vars

\* a second send is in flight after the first one has settled
C3_Witness ==
  /\ isLoading
  /\ nSent >= 2
  /\ Cardinality(requests) = 1

\* C4: pending is true in every state in which a send awaits its response,
\* and the step that processes the outcome of the network call (rejection,
\* non-ok status, parse failure, parsed body) leaves pending false.
C4_PendingSpan ==
  [][/\ (requests' # {}) => isLoading'
     /\ (last'.op \in SettleOps) => (~isLoading' /\ requests' # requests)]_vars

\* a send whose body could not be parsed has been processed
C4_Witness ==
  /\ last.op = "jsonRejected"
  /\ ~isLoading
  /\ requests = {}
  /\ messages # <<>>

\* C5: a rejected fetch, a non-ok status and an unparseable body each set
\* lastError to a non-empty text, append no message and leave related alone.
C5_FailureSetsError ==
  [][last'.op \in FailureOps
       => /\ error' # ""
          /\ messages' = messages
          /\ related' = related]_vars

\* a non-ok status was processed: the error shows, the user message is the
\* only message
C5_Witness ==
  /\ last.op = "responseNotOk"
  /\ error = "Failed to send message"
  /\ Len(messages) = 1
  /\ messages[1].sender = "user"
  /\ related = None

\* the text the reply is expected to carry: message, else reply, else the
\* placeholder
ExpectedReply(data) ==
  CASE data.message \notin {None, Some(<<>>)} -> data.message[1]
    [] data.message \in {None, Some(<<>>)} /\ data.reply \notin {None, Some(<<>>)}
         -> data.reply[1]
    [] OTHER -> Placeholder

OneBotAppended(data) ==
  /\ Len(messages') = Len(messages) + 1
  /\ SubSeq(messages', 1, Len(messages)) = messages
  /\ messages'[Len(messages')].sender = "bot"
  /\ messages'[Len(messages')].text = ExpectedReply(data)

\* C6 as stated: every parsed body of a 2xx response appends exactly one
\* bot message whose text is message, else reply, else the placeholder.
C6_Original ==
  [][last'.op = "jsonResolved" => OneBotAppended(last'.arg)]_vars

\* C6 amended: every parsed body other than JSON null appends exactly one
\* bot message whose text is message, else reply, else the placeholder.
C6_ReplyPrecedence ==
  [][(last'.op = "jsonResolved" /\ last'.arg.kind # "null")
       => OneBotAppended(last'.arg)]_vars

\* a body carrying both fields was processed and the reply shows message
C6_Witness ==
  /\ last.op = "jsonResolved"
  /\ last.arg.message = Some(<<"A">>)
  /\ last.arg.reply = Some(<<"B">>)
  /\ messages # <<>>
  /\ messages[Len(messages)].text = <<"A">>

\* C7: a sendMessage that passes the token guard leaves lastError empty and
\* related none in the state in which its request has just been issued.
C7_ResetOnSend ==
  [][(last'.op = "sendMessage" /\ TruthyToken(token))
       => /\ error' = ""
          /\ related' = None
          /\ \E r \in requests' \ requests : r.stage = "fetch"]_vars

\* a send started while an error was showing; its request is in flight
C7_Witness ==
  /\ last.op = "sendMessage"
  /\ last.hadError
  /\ error = ""
  /\ related = None
  /\ \E r \in requests : r.stage = "fetch"

\* C8: clear empties messages, lastError and related and leaves the token,
\* pending and the requests in flight as they were.
C8_ClearSemantics ==
  [][last'.op = "handleClear"
       => /\ messages' = <<>>
          /\ error' = ""
          /\ related' = None
          /\ token' = token
          /\ isLoading' = isLoading
          /\ requests' = requests]_vars

\* clear ran while a request was in flight
C8_Witness ==
  /\ last.op = "handleClear"
  /\ isLoading
  /\ requests # {}
  /\ messages = <<>>

\* C9: a response that arrives after a clear is applied to the cleared
\* state: a parsed body leaves the bot reply as the only message and sets
\* related to the body's mapping, any failure sets lastError.
C9_ClearDoesNotCancel ==
  [][(messages = <<>> /\ requests # {} /\ last'.op \in SettleOps)
       => IF last'.op = "jsonResolved" /\ last'.arg.kind # "null"
          THEN /\ Len(messages') = 1
               /\ messages'[1].sender = "bot"
               /\ messages'[1].text = ReplyText(last'.arg)
               /\ related' = last'.arg.related
          ELSE /\ messages' = <<>>
               /\ error' # ""]_vars

\* the reply to a cleared send is the only message and carries suggestions
C9_Witness ==
  /\ last.op = "jsonResolved"
  /\ Len(messages) = 1
  /\ messages[1].sender = "bot"
  /\ related # None

\* typing text into the input and submitting the form, from state s
TypeAndSubmit(s, tok, text, t) ==
  LET typed == [s EXCEPT !.inputMessage = text]
      sends == ~SubmitReturnsEarly(typed) /\ TruthyToken(tok)
  IN [state |-> IF SubmitReturnsEarly(typed) THEN typed
                ELSE sendMessageStart(typed, tok, text, t),
      bodies |-> IF sends THEN {[message |-> text]} ELSE {}]

\* the step is a suggestion click and it ends as typing text and
\* submitting would have ended
ClickEquals(text) ==
  LET sub == TypeAndSubmit(State, token, text, now')
  IN /\ Session(State)' = Session(sub.state)
     /\ {r.body : r \in requests' \ requests} = sub.bodies

\* C10 as stated: clicking a suggestion ends as typing its question text
\* and submitting does.
C10_Original ==
  [][(last'.op = "sendMessage" /\ last'.via = "related")
       => ClickEquals(last'.arg[2])]_vars

\* C10 amended: clicking a suggestion whose key is not blank ends as
\* typing its key and submitting does.
C10_ClickSendsKey ==
  [][(last'.op = "sendMessage" /\ last'.via = "related"
        /\ TruthyText(Trim(last'.arg[1])))
       => ClickEquals(last'.arg[1])]_vars

\* a suggestion was clicked and its key went out as the user's message
C10_Witness ==
  /\ last.op = "sendMessage"
  /\ last.via = "related"
  /\ last.arg = <<KeyText, QuestionText>>
  /\ messages # <<>>
  /\ messages[Len(messages)].text = KeyText
  /\ \E r \in requests : r.body = [message |-> KeyText]

\* C11: all entries of messages carry pairwise distinct ids, whatever the
\* clock read when each send started and each reply was processed.
C11_UniqueIds ==
  \A i, j \in 1..Len(messages) : i # j => messages[i].id # messages[j].id

\* C12: whenever related is set, messages is non-empty, its last entry is a
\* bot message, and the suggestion buttons are rendered under that entry.
C12_SuggestionsOnNewest ==
  related # None
    => /\ messages # <<>>
       /\ messages[Len(messages)].sender = "bot"
       /\ IsLastBotAt(State) = {Len(messages)}

\* suggestions show under the newest reply while another send, started
\* before that reply arrived, is still in flight
C12_Witness ==
  /\ related # None
  /\ requests # {}
  /\ Len(messages) >= 3
  /\ messages[Len(messages)].sender = "bot"
  /\ messages[Len(messages) - 1].sender = "user"

====
